---- MODULE Spec2Model ----
(***************************************************************************)
(* The CAC prediction service of app.py: the /predict_box_score handler    *)
(* (box_score), its aggregation loop over the Grok oracle                  *)
(* (predict_box_cac), the /health and /metrics handlers and the            *)
(* process-wide Prometheus metrics.                                        *)
(*                                                                         *)
(* Text is a sequence of one-character strings.  A Python float is a       *)
(* record [nan, c]: either NaN, or the number c/100.  The oracle replies   *)
(* the model draws are multiples of 0.25, which are exact in binary, so    *)
(* sum(cacs) is exact and independent of the order of the samples; the     *)
(* list cacs is therefore kept as a bag.                                   *)
(***************************************************************************)
EXTENDS Integers, Sequences, FiniteSets, Bags, TLC

\* range(10): the number of oracle calls of one aggregation.
N == 10

\* How many /health and /metrics requests a behaviour may hold.
MaxProbes == 1

\* The /predict_box_score requests of a behaviour; each is handled by a
\* thread of its own.
Requests == {"r1", "r2"}

Endpoints == {"/predict_box_score", "/metrics", "/health"}

PREDICT == "/predict_box_score"

VARIABLES
    request_count,      \* Counter by endpoint
    error_count,        \* Counter by endpoint
    success_count,      \* Counter by endpoint
    response_time,      \* Histogram by endpoint: the number of observations
    grok_calls,         \* Counter
    cac_distribution,   \* Gauge: a float
    status_codes,       \* Counter by status code label
    pc,                 \* per request: "idle", "call", "wait", "done"
    data,               \* per request: the JSON body it carries
    cacs,               \* per request: the samples collected
    iter,               \* per request: the iterations of the loop begun
    response,           \* per request: the HTTP response returned
    received,           \* per request: the oracle replies it has got so far (history)
    probe               \* the response to the last /health or /metrics request

----------------------------------------------------------------------------
(* Text and numbers *)

DigitChars == <<"0", "1", "2", "3", "4", "5", "6", "7", "8", "9">>

IsDigit(ch) == \E k \in 1..10 : DigitChars[k] = ch

DigitVal(ch) == (CHOOSE k \in 1..10 : DigitChars[k] = ch) - 1

IsSpace(ch) == ch \in {" ", "\n", "\t"}

RECURSIVE LStrip(_)
LStrip(s) == IF s # <<>> /\ IsSpace(Head(s)) THEN LStrip(Tail(s)) ELSE s

RECURSIVE RStrip(_)
RStrip(s) ==
    IF s # <<>> /\ IsSpace(s[Len(s)]) THEN RStrip(SubSeq(s, 1, Len(s) - 1)) ELSE s

\* str.strip()
Strip(s) == RStrip(LStrip(s))

Float(c) == [nan |-> FALSE, c |-> c]

NaN == [nan |-> TRUE, c |-> 0]

AllDigits(s) == \A k \in 1..Len(s) : IsDigit(s[k])

RECURSIVE DigitsVal(_)
DigitsVal(s) ==
    IF s = <<>> THEN 0 ELSE 10 * DigitsVal(SubSeq(s, 1, Len(s) - 1)) + DigitVal(s[Len(s)])

\* The fraction digits f (at most two) as hundredths.
FracVal(f) ==
    CASE Len(f) = 0 -> 0
      [] Len(f) = 1 -> 10 * DigitVal(f[1])
      [] OTHER -> DigitsVal(f)

\* float(text): [ok, v].  Accepts optional surrounding whitespace, an
\* optional sign, then "nan" or a decimal literal digits[.digits]; anything
\* else raises ValueError (ok = FALSE).  Literals of the model carry at most
\* two fraction digits.
PyFloat(text) ==
    LET s == Strip(text)
        signed == s # <<>> /\ Head(s) \in {"-", "+"}
        neg == s # <<>> /\ Head(s) = "-"
        body == IF signed THEN Tail(s) ELSE s
        dots == {k \in 1..Len(body) : body[k] = "."}
        dot == IF dots = {} THEN Len(body) + 1 ELSE CHOOSE k \in dots : \A j \in dots : k <= j
        ip == SubSeq(body, 1, dot - 1)
        fp == SubSeq(body, dot + 1, Len(body))
        mag == 100 * DigitsVal(ip) + FracVal(fp)
    IN  IF body = <<"n", "a", "n">>
        THEN [ok |-> TRUE, v |-> NaN]
        ELSE IF /\ Len(ip) + Len(fp) > 0
                /\ AllDigits(ip)
                /\ AllDigits(fp)
                /\ Len(fp) <= 2
             THEN [ok |-> TRUE, v |-> Float(IF neg THEN 0 - mag ELSE mag)]
             ELSE [ok |-> FALSE, v |-> NaN]

\* cac_float < 0; every comparison with NaN is False.
Negative(x) == ~x.nan /\ x.c < 0

RECURSIVE NatChars(_)
NatChars(n) ==
    IF n < 10 THEN <<DigitChars[n + 1]>>
    ELSE NatChars(n \div 10) \o <<DigitChars[(n % 10) + 1]>>

\* The text of c hundredths with exactly two fraction digits.
CentsChars(c) ==
    NatChars(c \div 100) \o <<".", DigitChars[((c % 100) \div 10) + 1], DigitChars[(c % 10) + 1]>>

----------------------------------------------------------------------------
(* Binary floating point: avg_cac = sum(cacs) / len(cacs) is the double    *)
(* nearest to the exact quotient, and the format rounds that double.       *)

RECURSIVE Log2Up(_, _, _)
\* For p >= q > 0: the largest L with q * 2^L <= p.
Log2Up(p, q, L) == IF 2 * q <= p THEN Log2Up(p, 2 * q, L + 1) ELSE L

RECURSIVE Log2Down(_, _, _)
\* For 0 < p < q: the smallest k with p * 2^k >= q.
Log2Down(p, q, k) == IF p >= q THEN k ELSE Log2Down(2 * p, q, k + 1)

FloorLog2(p, q) == IF p >= q THEN Log2Up(p, q, 0) ELSE 0 - Log2Down(p, q, 0)

RECURSIVE ShiftMod(_, _, _)
\* (x * 2^e) mod m
ShiftMod(x, e, m) == IF e = 0 THEN x % m ELSE ShiftMod((2 * x) % m, e - 1, m)

\* The sign of RN(p/q) - p/q, where RN rounds to the nearest double (53
\* significant bits, ties to even), for p, q > 0.
DoubleError(p, q) ==
    LET e == 52 - FloorLog2(p, q)
        r2 == ShiftMod(p % (2 * q), e, 2 * q)
        rem == r2 % q
        odd == r2 >= q
    IN  CASE rem = 0 -> 0
          [] 2 * rem < q -> -1
          [] 2 * rem > q -> 1
          [] OTHER -> IF odd THEN 1 ELSE -1

\* The hundredths that f"{avg_cac:.2f}" prints for avg_cac = RN((s/100)/n):
\* the double is rounded to two decimals; only when the exact mean lies
\* half-way between two hundredths does the error of the double decide.
FormatMean(s, n) ==
    LET lo == s \div n
        rem == s % n
        err == DoubleError(s, 100 * n)
    IN  CASE 2 * rem < n -> lo
          [] 2 * rem > n -> lo + 1
          [] OTHER -> CASE err > 0 -> lo + 1
                        [] err < 0 -> lo
                        [] OTHER -> IF lo % 2 = 0 THEN lo ELSE lo + 1

----------------------------------------------------------------------------
(* The oracle's replies to requests.post *)

StatusStr(n) ==
    CASE n = 200 -> "200"
      [] n = 400 -> "400"
      [] n = 429 -> "429"
      [] n = 500 -> "500"

StatusLabels == {"200", "400", "429", "500"}

\* An HTTP 200 reply whose JSON carries choices[0].message.content = text.
Json(text) == [kind |-> "http", status |-> 200, shape |-> "content", content |-> text]

\* An HTTP 200 reply whose JSON object lacks choices, message or content.
JsonNoContent == [kind |-> "http", status |-> 200, shape |-> "nocontent", content |-> <<>>]

\* An HTTP 200 reply whose JSON has "choices": [].
JsonNoChoice == [kind |-> "http", status |-> 200, shape |-> "nochoice", content |-> <<>>]

\* An HTTP 200 reply whose body is not JSON.
NotJson == [kind |-> "http", status |-> 200, shape |-> "text", content |-> <<"<html>">>]

\* A non-success reply: rate limited.
Http429 == [kind |-> "http", status |-> 429, shape |-> "text", content |-> <<"slow down">>]

\* No reply at all: requests.post raises (connection refused, DNS, TLS).
Refused == [kind |-> "refused", status |-> 0, shape |-> "none", content |-> <<>>]

T025 == <<"0", ".", "2", "5">>

T000 == <<"0", ".", "0", "0">>

TPadded == <<" ", "0", ".", "2", "5", "\n">>

TNegative == <<"-", "0", ".", "2", "5">>

TWords == <<"a", "b", "c">>

TBlank == <<" ">>

TNan == <<"n", "a", "n">>

\* What the oracle may answer while requests run concurrently.
Replies == {Json(T025), Json(T000), Http429, Refused}

\* What the oracle may answer to a request that runs alone.
AllReplies ==
    {Json(T000), Json(TPadded), Json(TNegative), Json(TWords), Json(<<>>), Json(TBlank),
     Json(TNan), JsonNoContent, JsonNoChoice, NotJson, Http429, Refused}

\* request.get_json(): JSON null, {}, an object with historical_data alone,
\* an object with future_box_info.
Body(json, keys) == [json |-> json, keys |-> keys]

Bodies ==
    {Body("null", {}), Body("object", {}), Body("object", {"historical_data"}),
     Body("object", {"future_box_info"})}

\* A check that forgets the empty body: data and 'future_box_info' not in data.
MissingInfoIgnoresEmpty(d) == d.keys # {} /\ "future_box_info" \notin d.keys

\* not data or 'future_box_info' not in data
MissingInfo(d) == (d.json = "null" \/ d.keys = {}) \/ "future_box_info" \notin d.keys

----------------------------------------------------------------------------
(* predict_box_cac, one iteration: from the reply to a sample or an error *)

\* result.get('choices', [{}])[0].get('message', {}).get('content', '').strip()
\* with response.json() before it: [raised, cac, error].
Content(resp) ==
    CASE resp.shape = "content" -> [raised |-> FALSE, cac |-> Strip(resp.content), error |-> <<>>]
      [] resp.shape = "nocontent" -> [raised |-> FALSE, cac |-> <<>>, error |-> <<>>]
      [] resp.shape = "nochoice" ->
            [raised |-> TRUE, cac |-> <<>>, error |-> <<"list index out of range">>]
      [] OTHER -> [raised |-> TRUE, cac |-> <<>>, error |-> <<"JSONDecodeError">>]

\* The validation of the stripped text cac: [ok, value, error].
Validate(cac) ==
    LET f == PyFloat(cac)
    IN  IF cac = <<>>
        THEN [ok |-> FALSE, value |-> NaN, error |-> <<"Empty response from model">>]
        ELSE IF f.ok /\ ~Negative(f.v)
             THEN [ok |-> TRUE, value |-> f.v, error |-> <<>>]
             ELSE [ok |-> FALSE, value |-> NaN, error |-> <<"Invalid CAC: ">> \o cac]

\* Lines 67-85 on the reply resp: the sample, or the exception raised.
Sample(resp) ==
    IF resp.kind = "refused"
    THEN [ok |-> FALSE, value |-> NaN, error |-> <<"ConnectionError">>]
    ELSE IF resp.status # 200
         THEN [ok |-> FALSE, value |-> NaN,
               error |-> <<"xAI API error: ", StatusStr(resp.status), " - ">> \o resp.content]
         ELSE LET c == Content(resp)
              IN  IF c.raised
                  THEN [ok |-> FALSE, value |-> NaN, error |-> c.error]
                  ELSE Validate(c.cac)

\* A wrapper that hides the cause.
PredictionErrorOpaque(e) == <<"Prediction error: ", "internal error">>

\* raise Exception(f"Prediction error: {str(e)}")
PredictionError(e) == <<"Prediction error: ">> \o e

----------------------------------------------------------------------------
(* predict_box_cac, the reduction *)

RECURSIVE SumCents(_, _)
\* The hundredths of the numbers of the bag b over the values S.
SumCents(b, S) ==
    IF S = {} THEN 0
    ELSE LET x == CHOOSE y \in S : TRUE
         IN  (IF x.nan THEN 0 ELSE x.c * b[x]) + SumCents(b, S \ {x})

\* sum(cacs)
Sum(b) ==
    IF \E x \in BagToSet(b) : x.nan THEN NaN ELSE Float(SumCents(b, BagToSet(b)))

\* len(cacs)
Length(b) == BagCardinality(b)

\* A reduction that smooths with the last estimate: the gauge is averaged in.
FinalCacSmoothed(b) ==
    IF Sum(b).nan \/ cac_distribution.nan THEN <<"n", "a", "n">>
    ELSE CentsChars(FormatMean(Sum(b).c + cac_distribution.c, Length(b) + 1))

\* final_cac = f"{sum(cacs) / len(cacs):.2f}"
FinalCac(b) ==
    IF Sum(b).nan THEN <<"n", "a", "n">> ELSE CentsChars(FormatMean(Sum(b).c, Length(b)))

----------------------------------------------------------------------------
(* The state *)

metricVars ==
    <<request_count, error_count, success_count, response_time, grok_calls,
      cac_distribution, status_codes>>

requestVars == <<pc, data, cacs, iter, response, received>>

vars == <<metricVars, requestVars, probe>>

NoResponse == [status |-> 0, key |-> "none", value |-> <<>>]

NoBody == Body("none", {})

Response(status, key, value) == [status |-> status, key |-> key, value |-> value]

Init ==
    /\ request_count = [e \in Endpoints |-> 0]
    /\ error_count = [e \in Endpoints |-> 0]
    /\ success_count = [e \in Endpoints |-> 0]
    /\ response_time = [e \in Endpoints |-> 0]
    /\ grok_calls = 0
    /\ cac_distribution = Float(0)
    /\ status_codes = [c \in StatusLabels |-> 0]
    /\ pc = [r \in Requests |-> "idle"]
    /\ data = [r \in Requests |-> NoBody]
    /\ cacs = [r \in Requests |-> EmptyBag]
    /\ iter = [r \in Requests |-> 0]
    /\ response = [r \in Requests |-> NoResponse]
    /\ received = [r \in Requests |-> {}]
    /\ probe = NoResponse

\* Counter.inc() of the labelled child c[label], by k.
Inc(c, label, k) == [c EXCEPT ![label] = @ + k]

RECURSIVE AllSamples(_)
\* The samples of the requests S together.
AllSamples(S) ==
    IF S = {} THEN EmptyBag
    ELSE LET q == CHOOSE x \in S : TRUE IN cacs[q] (+) AllSamples(S \ {q})

\* A list cacs kept at module level, shared by the requests in flight.
SamplesShared(r) == AllSamples(Requests)

\* The samples the reduction of request r reads: its own list cacs.
Samples(r) == cacs[r]

----------------------------------------------------------------------------
(* box_score and predict_box_cac *)

\* box_score, lines 102-109: the body lacks future_box_info.
box_score_reject(r, d) ==
    /\ pc[r] = "idle"
    /\ MissingInfo(d)
    /\ request_count' = Inc(request_count, PREDICT, 1)
    /\ error_count' = Inc(error_count, PREDICT, 1)
    /\ status_codes' = Inc(status_codes, "400", 1)
    /\ data' = [data EXCEPT ![r] = d]
    /\ response' = [response EXCEPT ![r] = Response(400, "error", <<"Missing future_box_info">>)]
    /\ pc' = [pc EXCEPT ![r] = "done"]
    /\ UNCHANGED <<success_count, response_time, grok_calls, cac_distribution, cacs, iter,
                   received, probe>>

\* box_score, lines 102-112, and predict_box_cac up to cacs = [].
box_score_accept(r, d) ==
    /\ pc[r] = "idle"
    /\ ~MissingInfo(d)
    /\ request_count' = Inc(request_count, PREDICT, 1)
    /\ data' = [data EXCEPT ![r] = d]
    /\ cacs' = [cacs EXCEPT ![r] = EmptyBag]
    /\ pc' = [pc EXCEPT ![r] = "call"]
    /\ UNCHANGED <<error_count, success_count, response_time, grok_calls, cac_distribution,
                   status_codes, iter, response, received, probe>>

\* A loop that fans out: the next call is sent while one is still pending.
grok_post_parallel(r) ==
    /\ pc[r] \in {"call", "wait"}
    /\ iter[r] < N
    /\ iter' = [iter EXCEPT ![r] = @ + 1]
    /\ grok_calls' = grok_calls + 1
    /\ pc' = [pc EXCEPT ![r] = "wait"]
    /\ UNCHANGED <<request_count, error_count, success_count, response_time, cac_distribution,
                   status_codes, data, cacs, response, received, probe>>

\* One pass of the loop up to requests.post, lines 48-67: the call is sent.
grok_post(r) ==
    /\ pc[r] = "call"
    /\ iter[r] < N
    /\ iter' = [iter EXCEPT ![r] = @ + 1]
    /\ grok_calls' = grok_calls + 1
    /\ pc' = [pc EXCEPT ![r] = "wait"]
    /\ UNCHANGED <<request_count, error_count, success_count, response_time, cac_distribution,
                   status_codes, data, cacs, response, received, probe>>

\* status_codes.labels(status_code=str(response.status_code)).inc(), line 68;
\* not reached when requests.post raised.
CountReply(resp) ==
    IF resp.kind = "http" THEN Inc(status_codes, StatusStr(resp.status), 1) ELSE status_codes

\* The sample is valid and the loop goes on, lines 82 and 48.
Continue(r, resp) ==
    /\ cacs' = [cacs EXCEPT ![r] = @ (+) SetToBag({Sample(resp).value})]
    /\ status_codes' = CountReply(resp)
    /\ pc' = [pc EXCEPT ![r] = "call"]
    /\ UNCHANGED <<request_count, error_count, success_count, response_time, grok_calls,
                   cac_distribution, data, iter, response, probe>>

\* The last sample is valid: lines 82, 86-93 and 113-114.  After ten appends
\* the list is not empty, so line 87 never raises.
Succeed(r, resp) ==
    /\ cacs' = [cacs EXCEPT ![r] = @ (+) SetToBag({Sample(resp).value})]
    /\ Length(Samples(r)') > 0
    /\ cac_distribution' = PyFloat(FinalCac(Samples(r)')).v
    /\ success_count' = Inc(success_count, PREDICT, 1)
    /\ response_time' = Inc(response_time, PREDICT, 1)
    /\ status_codes' = Inc(CountReply(resp), "200", 1)
    /\ response' = [response EXCEPT ![r] = Response(200, "predicted_cac", FinalCac(Samples(r)'))]
    /\ pc' = [pc EXCEPT ![r] = "done"]
    /\ UNCHANGED <<request_count, error_count, grok_calls, data, iter, probe>>

\* A loop that drops the bad sample and goes on with the next call.
FailSkipsSample(r, resp) ==
    /\ status_codes' = CountReply(resp)
    /\ pc' = [pc EXCEPT ![r] = "call"]
    /\ UNCHANGED <<request_count, error_count, success_count, response_time, grok_calls,
                   cac_distribution, data, cacs, iter, response, probe>>

\* A loop that asks the oracle again for the sample that failed.
FailRetries(r, resp) ==
    /\ status_codes' = CountReply(resp)
    /\ iter' = [iter EXCEPT ![r] = @ - 1]
    /\ pc' = [pc EXCEPT ![r] = "call"]
    /\ UNCHANGED <<request_count, error_count, success_count, response_time, grok_calls,
                   cac_distribution, data, cacs, response, probe>>

\* An error path that clears the last estimate.
FailClearsGauge(r, resp) ==
    /\ error_count' = Inc(error_count, PREDICT, 2)
    /\ response_time' = Inc(response_time, PREDICT, 1)
    /\ status_codes' = Inc(CountReply(resp), "500", 1)
    /\ response' =
           [response EXCEPT ![r] = Response(500, "error", PredictionError(Sample(resp).error))]
    /\ cacs' = [cacs EXCEPT ![r] = EmptyBag]
    /\ cac_distribution' = Float(0)
    /\ pc' = [pc EXCEPT ![r] = "done"]
    /\ UNCHANGED <<request_count, success_count, grok_calls, data, iter, probe>>

\* The iteration raised: lines 94-97 and 115-118.  The list cacs goes with
\* the frame of predict_box_cac.
Fail(r, resp) ==
    /\ error_count' = Inc(error_count, PREDICT, 2)
    /\ response_time' = Inc(response_time, PREDICT, 1)
    /\ status_codes' = Inc(CountReply(resp), "500", 1)
    /\ response' =
           [response EXCEPT ![r] = Response(500, "error", PredictionError(Sample(resp).error))]
    /\ cacs' = [cacs EXCEPT ![r] = EmptyBag]
    /\ pc' = [pc EXCEPT ![r] = "done"]
    /\ UNCHANGED <<request_count, success_count, grok_calls, cac_distribution, data, iter, probe>>

\* A loop bound that is off by one.
LoopDoneOffByOne(r) == iter[r] = N + 1

\* The loop is over when range(10) is exhausted.
LoopDone(r) == iter[r] = N

\* requests.post returns (or raises) in request r: lines 67-85 and what
\* follows without a further call.
grok_reply(r, resp) ==
    /\ pc[r] = "wait"
    /\ received' = [received EXCEPT ![r] = @ \cup {resp}]
    /\ IF Sample(resp).ok
       THEN IF LoopDone(r) THEN Succeed(r, resp) ELSE Continue(r, resp)
       ELSE Fail(r, resp)

----------------------------------------------------------------------------
(* /metrics and /health *)

Probes == request_count["/metrics"] + request_count["/health"]

\* A scrape that clears the counters it has exposed.
metrics_resets ==
    /\ Probes < MaxProbes
    /\ request_count' = Inc([e \in Endpoints |-> 0], "/metrics", 1)
    /\ status_codes' = Inc([c \in StatusLabels |-> 0], "200", 1)
    /\ grok_calls' = 0
    /\ probe' = Response(200, "metrics", <<"exposition">>)
    /\ UNCHANGED <<error_count, success_count, response_time, cac_distribution, requestVars>>

metrics ==
    /\ Probes < MaxProbes
    /\ request_count' = Inc(request_count, "/metrics", 1)
    /\ status_codes' = Inc(status_codes, "200", 1)
    /\ probe' = Response(200, "metrics", <<"exposition">>)
    /\ UNCHANGED <<error_count, success_count, response_time, grok_calls, cac_distribution,
                   requestVars>>

\* A health check that reports the oracle's state: unhealthy once the
\* oracle has been seen rate limiting.
health_check_oracle ==
    /\ Probes < MaxProbes
    /\ request_count' = Inc(request_count, "/health", 1)
    /\ status_codes' = Inc(status_codes, IF status_codes["429"] > 0 THEN "500" ELSE "200", 1)
    /\ probe' = IF status_codes["429"] > 0
                THEN Response(500, "status", <<"unhealthy">>)
                ELSE Response(200, "status", <<"healthy">>)
    /\ UNCHANGED <<error_count, success_count, response_time, grok_calls, cac_distribution,
                   requestVars>>

health_check ==
    /\ Probes < MaxProbes
    /\ request_count' = Inc(request_count, "/health", 1)
    /\ status_codes' = Inc(status_codes, "200", 1)
    /\ probe' = Response(200, "status", <<"healthy">>)
    /\ UNCHANGED <<error_count, success_count, response_time, grok_calls, cac_distribution,
                   requestVars>>

----------------------------------------------------------------------------
(* Specifications *)

Reject == \E r \in Requests, d \in Bodies : box_score_reject(r, d)

Accept == \E r \in Requests, d \in Bodies : box_score_accept(r, d)

Post == \E r \in Requests : grok_post(r)

Reply == \E r \in Requests, resp \in Replies : grok_reply(r, resp)

\* The service under concurrent requests.
Next == Reject \/ Accept \/ Post \/ Reply \/ metrics \/ health_check

Spec == Init /\ [][Next]_vars

RejectAlone == \E d \in Bodies : box_score_reject("r1", d)

AcceptAlone == \E d \in Bodies : box_score_accept("r1", d)

PostAlone == grok_post("r1")

ReplyAlone == \E resp \in AllReplies : grok_reply("r1", resp)

\* One request on its own, against every kind of oracle reply.
NextAlone == RejectAlone \/ AcceptAlone \/ PostAlone \/ ReplyAlone \/ metrics \/ health_check

SpecAlone == Init /\ [][NextAlone]_vars

\* What the oracle may answer to a caller that tries again: the replies above
\* and the empty one.
RetryReplies == Replies \cup {Json(<<>>)}

ReplyFirst == \E resp \in RetryReplies : grok_reply("r1", resp)

\* The caller sends its second request once the first has been answered.
RejectRetry == \E d \in Bodies : pc["r1"] = "done" /\ box_score_reject("r2", d)

AcceptRetry == \E d \in Bodies : pc["r1"] = "done" /\ box_score_accept("r2", d)

PostRetry == grok_post("r2")

ReplyRetry == \E resp \in RetryReplies : grok_reply("r2", resp)

\* A caller that tries again after its first request has been answered.
NextRetry ==
    \/ RejectAlone \/ AcceptAlone \/ PostAlone \/ ReplyFirst
    \/ RejectRetry \/ AcceptRetry \/ PostRetry \/ ReplyRetry
    \/ metrics \/ health_check

\* Every handler thread is scheduled and every oracle call returns, with a
\* reply or with an exception.
SpecRetry ==
    /\ Init /\ [][NextRetry]_vars
    /\ WF_vars(PostAlone) /\ WF_vars(ReplyFirst)
    /\ WF_vars(PostRetry) /\ WF_vars(ReplyRetry)

----------------------------------------------------------------------------
(* What the claims say of a reply, stated on its text *)

\* t is a decimal literal: an optional sign, digits, at most one point.
IsDecimalText(t) ==
    LET b == IF t # <<>> /\ Head(t) \in {"-", "+"} THEN Tail(t) ELSE t
    IN  /\ \E k \in 1..Len(b) : IsDigit(b[k])
        /\ \A k \in 1..Len(b) : IsDigit(b[k]) \/ b[k] = "."
        /\ Cardinality({k \in 1..Len(b) : b[k] = "."}) <= 1

\* The decimal literal t is below zero.
IsNegativeText(t) ==
    /\ t # <<>>
    /\ Head(t) = "-"
    /\ \E k \in 1..Len(t) : IsDigit(t[k]) /\ t[k] # "0"

\* The reply is an HTTP 200 answer carrying a message content.
HasContent(resp) == resp.kind = "http" /\ resp.status = 200 /\ resp.shape = "content"

\* The content is a number of the domain: numeric and not negative.
NumericInRange(resp) ==
    /\ HasContent(resp)
    /\ IsDecimalText(Strip(resp.content))
    /\ ~IsNegativeText(Strip(resp.content))

\* The content is empty, not numeric or negative.
BadContent(resp) == HasContent(resp) /\ ~NumericInRange(resp)

\* The oracle layer failed: no reply, a non-success status, or a body that
\* does not hold choices[0].message.content.
OracleFailure(resp) == ~HasContent(resp)

\* round-half-up and round-half-even of s/n, for s >= 0 and n > 0.
RoundHalfUp(s, n) == IF 2 * (s % n) >= n THEN (s \div n) + 1 ELSE s \div n

RoundHalfEven(s, n) ==
    CASE 2 * (s % n) > n -> (s \div n) + 1
      [] 2 * (s % n) < n -> s \div n
      [] OTHER -> IF (s \div n) % 2 = 0 THEN s \div n ELSE (s \div n) + 1

\* The hundredths of the samples of request r.
Total(r) == SumCents(cacs[r], BagToSet(cacs[r]))

Done(r) == pc[r] = "done"

----------------------------------------------------------------------------
(* Claims *)

\* C1: when all N = 10 replies of a request are HTTP 200 answers whose content
\* is a non-negative numeric string, the response is HTTP 200 and predicted_cac
\* is the arithmetic mean of the 10 numbers rounded to two decimals (half-way
\* cases rounded up, or to even).
C1_MeanRoundedToTwoDecimals ==
    \A r \in Requests :
        (Done(r) /\ iter[r] = N /\ \A resp \in received[r] : NumericInRange(resp))
            => /\ response[r].status = 200
               /\ response[r].key = "predicted_cac"
               /\ response[r].value \in {CentsChars(RoundHalfUp(Total(r), N)),
                                         CentsChars(RoundHalfEven(Total(r), N))}

\* C2: when one of the replies of a request is empty, not numeric or negative,
\* the response is HTTP 500 and carries no predicted_cac.
C2_BadReplyGivesNoEstimate ==
    \A r \in Requests :
        (Done(r) /\ \E resp \in received[r] : BadContent(resp))
            => response[r].status = 500 /\ response[r].key # "predicted_cac"

\* The body carries no future_box_info.
LacksBoxInfo(d) == "future_box_info" \notin d.keys

RECURSIVE IterSum(_)
\* The oracle calls issued by the requests S.
IterSum(S) ==
    IF S = {} THEN 0 ELSE LET r == CHOOSE q \in S : TRUE IN iter[r] + IterSum(S \ {r})

Failed(r) == Done(r) /\ response[r].status = 500

C5_EstimateFromTenValidSamples ==
    \A r \in Requests :
        /\ response[r].status = 200
               => /\ Length(cacs[r]) = N
                  /\ \A x \in BagToSet(cacs[r]) : ~x.nan /\ x.c >= 0
        /\ (Done(r) /\ response[r].status # 200) => response[r].key = "error"

\* C6: a failure of the oracle layer at any sample (no reply, a non-success
\* status, a body without choices[0].message.content) is not retried: the
\* request is over, answered HTTP 500 with one error message and no estimate.
C6_OracleFailureAborts ==
    \A r \in Requests :
        (\E resp \in received[r] : OracleFailure(resp))
            => /\ Failed(r)
               /\ response[r].key = "error"
               /\ Head(response[r].value) = "Prediction error: "
               /\ cacs[r] = EmptyBag
               /\ \A resp \in received[r] : OracleFailure(resp) \/ Sample(resp).ok
               /\ Cardinality({resp \in received[r] : OracleFailure(resp)}) = 1

\* C6 witness: a body that is not JSON arrived after valid samples.
C6_Witness ==
    \E r \in Requests :
        /\ NotJson \in received[r]
        /\ iter[r] > 1
        /\ response[r].status = 500

\* A step of the /health handler.
HealthStep == request_count'["/health"] = request_count["/health"] + 1

\* C7: /health answers HTTP 200 'healthy' whatever the oracle does: the handler
\* can run in every state (requests failed or in flight), its answer is always
\* 200 healthy, and it issues no oracle call and touches no request.
C7_HealthAlwaysHealthy ==
    /\ [](Probes < MaxProbes => ENABLED health_check)
    /\ [][HealthStep => /\ probe' = Response(200, "status", <<"healthy">>)
                        /\ status_codes'["200"] = status_codes["200"] + 1
                        /\ grok_calls' = grok_calls
                        /\ UNCHANGED requestVars]_vars

\* C7 witness: /health answered healthy while one request has failed on an
\* unreachable oracle and another request waits for the oracle.
C7_Witness ==
    /\ probe = Response(200, "status", <<"healthy">>)
    /\ \E r \in Requests : Failed(r) /\ Refused \in received[r]
    /\ \E r \in Requests : pc[r] = "wait"

\* The oracle answered every one of the N calls of request r with the text t.
ConstantOracle(r, t) == Done(r) /\ iter[r] = N /\ received[r] = {Json(t)}

\* C8: with an oracle that always returns the same numeric text, two requests
\* with the same body get the identical reported value, which is that number
\* with two decimals, whatever ran before and whatever the metrics hold.
C8_Idempotent ==
    \A r1, r2 \in Requests :
        \A t \in {T025, T000} :
            (ConstantOracle(r1, t) /\ ConstantOracle(r2, t) /\ data[r1] = data[r2])
                => /\ response[r1] = response[r2]
                   /\ response[r1] = Response(200, "predicted_cac", t)

\* C8 witness: two requests, each answered "0.25" ten times, after a /metrics
\* scrape.
C8_Witness ==
    /\ ConstantOracle("r1", T025)
    /\ ConstantOracle("r2", T025)
    /\ request_count["/metrics"] = 1

\* The replies of request r on which its iteration raised.
OwnFailures(r) == {resp \in received[r] : ~Sample(resp).ok}

\* The response request r gets when it runs alone with its body, the samples it
\* collected itself and the failing reply it received itself.
AloneResponse(r) ==
    IF LacksBoxInfo(data[r])
    THEN Response(400, "error", <<"Missing future_box_info">>)
    ELSE IF OwnFailures(r) # {}
         THEN Response(500, "error",
                       PredictionError(Sample(CHOOSE resp \in OwnFailures(r) : TRUE).error))
         ELSE Response(200, "predicted_cac", FinalCac(cacs[r]))

Answered(status) == {r \in Requests : Done(r) /\ response[r].status = status}

\* The HTTP 200 replies of the oracle that request r has processed.
OkReplies(r) ==
    iter[r] - (IF pc[r] = "wait" THEN 1 ELSE 0)
            - (IF \E resp \in received[r] : resp.kind # "http" \/ resp.status # 200 THEN 1 ELSE 0)

RECURSIVE OkRepliesSum(_)
OkRepliesSum(S) ==
    IF S = {} THEN 0 ELSE LET r == CHOOSE q \in S : TRUE IN OkReplies(r) + OkRepliesSum(S \ {r})

\* C9: under every interleaving each request's response is the one it gets
\* alone from its own body and its own oracle replies, its samples are its own,
\* and every counter equals the sum of the increments of the single requests.
C9_RequestsIndependent ==
    /\ \A r \in Requests :
          /\ Done(r) => response[r] = AloneResponse(r)
          /\ BagToSet(cacs[r]) \subseteq {Sample(resp).value : resp \in received[r]}
          /\ response[r].status = 200 => Length(cacs[r]) = N
    /\ request_count[PREDICT] = Cardinality({r \in Requests : pc[r] # "idle"})
    /\ grok_calls = IterSum(Requests)
    /\ success_count[PREDICT] = Cardinality(Answered(200))
    /\ error_count[PREDICT] = Cardinality(Answered(400)) + 2 * Cardinality(Answered(500))
    /\ response_time[PREDICT] = Cardinality(Answered(200)) + Cardinality(Answered(500))
    /\ status_codes["400"] = Cardinality(Answered(400))
    /\ status_codes["500"] = Cardinality(Answered(500))
    /\ status_codes["429"] = Cardinality({r \in Requests : Http429 \in received[r]})
    /\ status_codes["200"] = Probes + Cardinality(Answered(200)) + OkRepliesSum(Requests)

\* C9 witness: two requests ran interleaved, both mid-way at some point, and
\* ended with different estimates; here the first is done and the second is
\* still sampling with samples of its own.
C9_Witness ==
    /\ Done("r1") /\ response["r1"] = Response(200, "predicted_cac", T025)
    /\ pc["r2"] = "wait" /\ iter["r2"] = 6
    /\ received["r2"] = {Json(T000)}

\* C10: no step lowers or resets a counter (requests, errors, successes,
\* response-time observations, oracle calls, status codes); the gauge is free.
C10_CountersMonotone ==
    [][/\ \A e \in Endpoints :
             /\ request_count'[e] >= request_count[e]
             /\ error_count'[e] >= error_count[e]
             /\ success_count'[e] >= success_count[e]
             /\ response_time'[e] >= response_time[e]
       /\ grok_calls' >= grok_calls
       /\ \A c \in StatusLabels : status_codes'[c] >= status_codes[c]]_vars

\* C10 witness: the gauge holds less than an estimate reported earlier (it was
\* overwritten with a smaller value) while the counters have grown.
C10_Witness ==
    /\ \E r \in Requests :
          /\ response[r].status = 200
          /\ PyFloat(response[r].value).v.c > cac_distribution.c
    /\ success_count[PREDICT] = 2
    /\ request_count["/metrics"] = 1

\* The oracle calls of the running request r that have no reply yet: those
\* issued less the samples appended (every reply so far gave a sample).
Outstanding(r) == iter[r] - Length(cacs[r])

\* C11: the calls of one aggregation are strictly sequential.  A running request
\* has at most one call without a reply, exactly when it waits; and a call is
\* issued only by a request with no call pending whose replies so far were all
\* received and validated, one sample per call issued.
C11_CallsSequential ==
    /\ [](\A r \in Requests :
            ~Done(r) => /\ Outstanding(r) \in {0, 1}
                        /\ Outstanding(r) = 1 <=> pc[r] = "wait")
    /\ [][\A r \in Requests :
            iter'[r] # iter[r]
                => /\ iter'[r] = iter[r] + 1
                   /\ iter[r] < N
                   /\ pc[r] = "call"
                   /\ Length(cacs[r]) = iter[r]
                   /\ \A resp \in received[r] : Sample(resp).ok
                   /\ grok_calls' = grok_calls + 1]_vars

\* C11 witness: two requests each wait for their one pending call, the fourth
\* of the one after three validated samples.
C11_Witness ==
    /\ pc["r1"] = "wait" /\ iter["r1"] = 4 /\ Length(cacs["r1"]) = 3
    /\ pc["r2"] = "wait" /\ Outstanding("r2") = 1

\* Request r completes a successful aggregation in this step.
SucceedStep(r) == pc[r] = "wait" /\ Done(r)' /\ response'[r].status = 200

\* C12: the gauge is written only by a successful aggregation, which sets it to
\* the value it reports; every other step (a failing request, a rejected one,
\* /health, /metrics, a call, a sample) leaves it unchanged.  So the gauge always
\* holds the value of the latest successful aggregation, or its initial 0.
C12_GaugeIsLastEstimate ==
    /\ [][\A r \in Requests :
            SucceedStep(r) => /\ response'[r].key = "predicted_cac"
                              /\ cac_distribution' = PyFloat(response'[r].value).v]_vars
    /\ [][(\A r \in Requests : ~SucceedStep(r)) => cac_distribution' = cac_distribution]_vars
    /\ [](\/ cac_distribution = Float(0)
          \/ \E r \in Requests :
                /\ Done(r) /\ response[r].status = 200
                /\ cac_distribution = PyFloat(response[r].value).v)

\* C12 witness: the gauge holds the estimate 0.25 of one request although the
\* other request has failed, one was probed and the counters moved on.
C12_Witness ==
    /\ cac_distribution = Float(25)
    /\ \E r \in Requests : response[r] = Response(200, "predicted_cac", T025)
    /\ \E r \in Requests : Failed(r) /\ iter[r] > 1
    /\ Probes = 1

\* No request is being handled.
Quiescent == \A r \in Requests : pc[r] \in {"idle", "done"}

\* C13: every handled /predict_box_score request is counted once as a request
\* and exactly once as a success or as an error: once all requests have
\* completed, requests = successes + errors.
C13_EachRequestCountedOnce ==
    Quiescent =>
        /\ request_count[PREDICT] = success_count[PREDICT] + error_count[PREDICT]
        /\ success_count[PREDICT] = Cardinality(Answered(200))
        /\ error_count[PREDICT] = Cardinality(Answered(400)) + Cardinality(Answered(500))

\* C14: the status-code counter counts the responses of the service: for the
\* codes 200, 400 and 500 its count is the number of responses returned with
\* that code (to /predict_box_score, /health and /metrics).
C14_StatusCodesCountResponses ==
    /\ status_codes["200"] = Cardinality(Answered(200)) + Probes
    /\ status_codes["400"] = Cardinality(Answered(400))
    /\ status_codes["500"] = Cardinality(Answered(500))

\* C15: the error message of a failed request wraps the cause of the one sample
\* that failed: a non-numeric or negative reply is quoted in it, and a
\* non-success oracle status appears with its code and body text.
C15_CauseRetained ==
    \A r \in Requests :
        Failed(r) =>
            /\ Cardinality(OwnFailures(r)) = 1
            /\ response[r].key = "error"
            /\ Head(response[r].value) = "Prediction error: "
            /\ \A f \in OwnFailures(r) :
                  /\ (BadContent(f) /\ Strip(f.content) # <<>>)
                        => response[r].value =
                               <<"Prediction error: ", "Invalid CAC: ">> \o Strip(f.content)
                  /\ (f.kind = "http" /\ f.status # 200)
                        => response[r].value =
                               <<"Prediction error: ", "xAI API error: ", StatusStr(f.status), " - ">>
                                   \o f.content

\* C15 witness: the third reply was "-0.25" and the error quotes it.
C15_Witness ==
    \E r \in Requests :
        /\ Failed(r)
        /\ iter[r] = 3
        /\ Json(TNegative) \in received[r]
        /\ response[r].value = <<"Prediction error: ", "Invalid CAC: ", "-", "0", ".", "2", "5">>

\* Request r is being handled.
Running(r) == pc[r] \in {"call", "wait"}

\* C16: provided every oracle call returns, a request that is being handled
\* ends, after at most N = 10 oracle calls, in one terminal state with one
\* response: HTTP 200, or HTTP 400/500.  Nothing changes for a request once it
\* is answered (no resumption, no retry), and a new request starts with no
\* call made and an empty sample list.
C16_RequestsTerminate ==
    /\ [](\A r \in Requests :
            /\ iter[r] <= N
            /\ Done(r) <=> response[r].status \in {200, 400, 500}
            /\ ~Done(r) => response[r] = NoResponse)
    /\ [][\A r \in Requests :
            /\ Done(r) => /\ Done(r)'
                          /\ response'[r] = response[r]
                          /\ iter'[r] = iter[r]
                          /\ cacs'[r] = cacs[r]
                          /\ received'[r] = received[r]
            /\ (pc[r] = "idle" /\ pc'[r] # "idle")
                   => /\ iter'[r] = 0
                      /\ cacs'[r] = EmptyBag
                      /\ received'[r] = {}]_vars
    /\ \A r \in Requests : Running(r) ~> Done(r)

\* C16 witness: one request has failed for good after three calls, and the
\* caller's second request has run all N calls to an estimate.
C16_Witness ==
    /\ Failed("r1") /\ iter["r1"] = 3
    /\ Done("r2") /\ response["r2"].status = 200 /\ iter["r2"] = N

====
